---- MODULE Spec2Model ----
(***************************************************************************)
(* cloudaux.orchestration.aws.iam.user: the flag registry of the IAM user  *)
(* orchestration, the base operation _get_base, the per-entity entry point *)
(* get_user and the bulk entry point get_all_users.                        *)
(*                                                                         *)
(* The build-out engine (flagpole's FlagRegistry.build_out), the key       *)
(* renaming modify / modify_output, get_iso_string, _conn_from_args,       *)
(* _get_name_from_structure and the provider wrappers are imported by      *)
(* user.py (lines 9-20) and are not part of it; they are modelled after    *)
(* sections 4.3, 4.4 and 6 of the specification.                           *)
(***************************************************************************)
EXTENDS Integers, Sequences, FiniteSets, TLC

VARIABLES
    pc,             \* position of the running call
    mode,           \* "none", "get_user" or "get_all_users"
    flags,          \* the flags argument of the call
    start,          \* start_with: the document handed to build_out
    conn,           \* the connection parameters after _conn_from_args
    user,           \* the working document of the running build-out
    pending,        \* selected operations of the build-out not yet invoked
    calls,          \* invocations per operation within the running build-out
    fetches,        \* provider calls iam.client.get_user within the build-out
    outcome,        \* "none", "returned" or "raised"
    result,         \* what the call returned
    err,            \* the error the caller sees
    thrown,         \* the error as it was raised where it originated
    account_users,  \* the authorization-details export (get_all_users)
    idx,            \* position of the loop of get_all_users in the export
    users,          \* the list get_all_users accumulates
    built,          \* per appended entity, the invocations of its build-out
    directory,      \* per user, whether the provider holds a PasswordLastUsed
    prev,           \* outcome of the preceding call with the same arguments
    registered,     \* the descriptors the registry holds, in registration order
    inflight        \* operations invoked whose result is not merged yet

vars == <<pc, mode, flags, start, conn, user, pending, calls, fetches, outcome,
          result, err, thrown, account_users, idx, users, built, directory, prev,
          registered, inflight>>

-----------------------------------------------------------------------------
(* Bounds *)

\* number of distinct IAM users of the account
MaxUsers == 2

\* number of flag bits above the seven declared ones a caller may set
MaxUnknownBits == 1

-----------------------------------------------------------------------------
(* Values *)

None == "None"

Users == 1..MaxUsers

\* the empty dict, the empty list and "no value"
Nothing == <<>>

\* a dict literal / dict.update: the entries of e override those of d
Update(d, e) ==
    [k \in (DOMAIN d) \cup (DOMAIN e) |-> IF k \in DOMAIN e THEN e[k] ELSE d[k]]

RECURSIVE Pow2(_)
Pow2(n) == IF n = 0 THEN 1 ELSE 2 * Pow2(n - 1)

RECURSIVE BitAnd(_, _)
BitAnd(a, b) ==
    IF a = 0 \/ b = 0 THEN 0
    ELSE (a % 2) * (b % 2) + 2 * BitAnd(a \div 2, b \div 2)

\* the value the provider holds for field f of user u; dates are datetimes
DateFields == {"CreateDate", "PasswordLastUsed"}

Native(f, u) == IF f \in DateFields THEN <<"datetime", f, u>> ELSE <<f, u>>

\* the user a provider-native value belongs to
OwnerOf(v) == v[Len(v)]

-----------------------------------------------------------------------------
(* FLAGS and the registry, user.py lines 23-58 *)

FlagNames ==
    <<"BASE", "ACCESS_KEYS", "INLINE_POLICIES", "MANAGED_POLICIES", "MFA_DEVICES",
      "LOGIN_PROFILE", "SIGNING_CERTIFICATES">>

\* Flags(...): the i-th declared name is bit 2^(i-1); ALL is their union, NONE is 0
FlagBit(name) ==
    Pow2((CHOOSE i \in 1..Len(FlagNames) : FlagNames[i] = name) - 1)

ALL == Pow2(Len(FlagNames)) - 1

NONE == 0

\* every value a caller can pass as flags, unknown high bits included
FlagValues == 0..(Pow2(Len(FlagNames) + MaxUnknownBits) - 1)

\* the registry with the decorator of line 58 forgotten
RegistryWithoutBase ==
    << [fn |-> "get_access_keys", flag |-> FlagBit("ACCESS_KEYS"),
        depends_on |-> FlagBit("BASE"), key |-> "access_keys"],
       [fn |-> "get_inline_policies", flag |-> FlagBit("INLINE_POLICIES"),
        depends_on |-> FlagBit("BASE"), key |-> "inline_policies"],
       [fn |-> "get_managed_policies", flag |-> FlagBit("MANAGED_POLICIES"),
        depends_on |-> FlagBit("BASE"), key |-> "managed_policies"],
       [fn |-> "get_mfa_devices", flag |-> FlagBit("MFA_DEVICES"),
        depends_on |-> FlagBit("BASE"), key |-> "mfa_devices"],
       [fn |-> "get_login_profile", flag |-> FlagBit("LOGIN_PROFILE"),
        depends_on |-> FlagBit("BASE"), key |-> "login_profile"],
       [fn |-> "get_signing_certificates", flag |-> FlagBit("SIGNING_CERTIFICATES"),
        depends_on |-> FlagBit("BASE"), key |-> "signing_certificates"] >>

\* the registry with the decorator of line 43 given the key of line 28
RegistryKeyCollision ==
    << [fn |-> "get_access_keys", flag |-> FlagBit("ACCESS_KEYS"),
        depends_on |-> FlagBit("BASE"), key |-> "access_keys"],
       [fn |-> "get_inline_policies", flag |-> FlagBit("INLINE_POLICIES"),
        depends_on |-> FlagBit("BASE"), key |-> "inline_policies"],
       [fn |-> "get_managed_policies", flag |-> FlagBit("MANAGED_POLICIES"),
        depends_on |-> FlagBit("BASE"), key |-> "managed_policies"],
       [fn |-> "get_mfa_devices", flag |-> FlagBit("MFA_DEVICES"),
        depends_on |-> FlagBit("BASE"), key |-> "access_keys"],
       [fn |-> "get_login_profile", flag |-> FlagBit("LOGIN_PROFILE"),
        depends_on |-> FlagBit("BASE"), key |-> "login_profile"],
       [fn |-> "get_signing_certificates", flag |-> FlagBit("SIGNING_CERTIFICATES"),
        depends_on |-> FlagBit("BASE"), key |-> "signing_certificates"],
       [fn |-> "_get_base", flag |-> FlagBit("BASE"),
        depends_on |-> 0, key |-> None] >>

\* registry.register(flag=..., depends_on=..., key=...), in registration order
Registry ==
    << [fn |-> "get_access_keys", flag |-> FlagBit("ACCESS_KEYS"),
        depends_on |-> FlagBit("BASE"), key |-> "access_keys"],
       [fn |-> "get_inline_policies", flag |-> FlagBit("INLINE_POLICIES"),
        depends_on |-> FlagBit("BASE"), key |-> "inline_policies"],
       [fn |-> "get_managed_policies", flag |-> FlagBit("MANAGED_POLICIES"),
        depends_on |-> FlagBit("BASE"), key |-> "managed_policies"],
       [fn |-> "get_mfa_devices", flag |-> FlagBit("MFA_DEVICES"),
        depends_on |-> FlagBit("BASE"), key |-> "mfa_devices"],
       [fn |-> "get_login_profile", flag |-> FlagBit("LOGIN_PROFILE"),
        depends_on |-> FlagBit("BASE"), key |-> "login_profile"],
       [fn |-> "get_signing_certificates", flag |-> FlagBit("SIGNING_CERTIFICATES"),
        depends_on |-> FlagBit("BASE"), key |-> "signing_certificates"],
       [fn |-> "_get_base", flag |-> FlagBit("BASE"),
        depends_on |-> 0, key |-> None] >>

Descriptors == {Registry[i] : i \in 1..Len(Registry)}

\* the names of every callable the model counts invocations of
OpNames ==
    {"get_access_keys", "get_inline_policies", "get_managed_policies",
     "get_mfa_devices", "get_login_profile", "get_signing_certificates", "_get_base"}

\* the default flags of get_all_users, line 110
DefaultBulkFlags ==
    FlagBit("ACCESS_KEYS") + FlagBit("MFA_DEVICES") + FlagBit("LOGIN_PROFILE")
        + FlagBit("SIGNING_CERTIFICATES")

-----------------------------------------------------------------------------
(* The build-out engine, specification section 4.3 *)

\* the Base operation: registered with no dependency and no key
BaseDescriptors == {d \in Descriptors : d.depends_on = 0 /\ d.key = None}

FlaggedDescriptors == Descriptors \ BaseDescriptors

\* step 2: the non-Base descriptors whose flag intersects the requested flags
Selected(requested) ==
    {d.fn : d \in {e \in FlaggedDescriptors : BitAnd(requested, e.flag) # 0}}

DescriptorOf(fn) == CHOOSE d \in Descriptors : d.fn = fn

\* an operation may run once every operation it depends on has been merged
DepsMet(fn, executed) ==
    \A e \in Descriptors :
        BitAnd(DescriptorOf(fn).depends_on, e.flag) # 0 => e.fn \in executed

\* step 4: document[key] = result, stored verbatim
Merge(document, key, value) ==
    [k \in (DOMAIN document) \cup {key} |-> IF k = key THEN value ELSE document[k]]

-----------------------------------------------------------------------------
(* Output shaping and the other collaborators, specification sections 4.4, 6 *)

UnderscoredKeys ==
    {"arn", "create_date", "path", "user_id", "user_name", "password_last_used",
     "access_keys", "inline_policies", "managed_policies", "mfa_devices",
     "login_profile", "signing_certificates"}

\* the camelized name of a key; the document shape of section 6 fixes the names
Camelize(k) ==
    CASE k = "arn" -> "Arn"
      [] k = "create_date" -> "CreateDate"
      [] k = "path" -> "Path"
      [] k = "user_id" -> "UserId"
      [] k = "user_name" -> "UserName"
      [] k = "password_last_used" -> "PasswordLastUsed"
      [] k = "access_keys" -> "AccessKeys"
      [] k = "inline_policies" -> "InlinePolicies"
      [] k = "managed_policies" -> "ManagedPolicies"
      [] k = "mfa_devices" -> "MFADevices"
      [] k = "login_profile" -> "LoginProfile"
      [] k = "signing_certificates" -> "SigningCertificates"
      [] k = "name" -> "Name"
      [] OTHER -> k

\* modify(item, output='camelized'): every key renamed; when a renamed key meets
\* a key already in that convention, the renamed one was inserted later and wins
ModifyKeys(item) ==
    [K \in {Camelize(k) : k \in DOMAIN item} |->
        LET renamed == {k \in DOMAIN item : k # K /\ Camelize(k) = K}
        IN  IF renamed # {} THEN item[CHOOSE k \in renamed : TRUE] ELSE item[K]]

\* a value that is a sequence of mappings is tagged "list"; every other value
\* is a leaf and is left untouched
ModifyValue(v) ==
    IF v[1] = "list"
    THEN [i \in 1..Len(v) |-> IF i = 1 THEN "list" ELSE ModifyKeys(v[i])]
    ELSE v

Modify(item) ==
    LET top == ModifyKeys(item) IN [K \in DOMAIN top |-> ModifyValue(top[K])]

\* get_iso_string: a datetime becomes its ISO 8601 text, a text stays as it is
GetIsoString(v) ==
    IF v[1] = "datetime" THEN <<"iso8601", v[2], v[3]>> ELSE v

\* _conn_from_args(user, conn): the account is derived from the Arn when present
ConnFromArgs(item) ==
    IF "Arn" \in DOMAIN item
    THEN [assume_role |-> "role", account_number |-> OwnerOf(item["Arn"])]
    ELSE [assume_role |-> "role", account_number |-> 0]

\* _get_name_from_structure(user, 'UserName'): the field, else the name parsed
\* from the Arn; with neither it raises MissingFieldException
HasNameInStructure(item) == "UserName" \in DOMAIN item \/ "Arn" \in DOMAIN item

GetNameFromStructure(item) ==
    IF "UserName" \in DOMAIN item THEN OwnerOf(item["UserName"])
    ELSE OwnerOf(item["Arn"])

\* the 'User' record iam.client.get_user holds for user u
ProviderUserFields == {"Arn", "CreateDate", "Path", "UserId", "UserName"}

ProviderUser(u, everLoggedIn) ==
    [f \in ProviderUserFields \cup (IF everLoggedIn THEN {"PasswordLastUsed"} ELSE {})
        |-> Native(f, u)]

\* what the provider wrapper behind a flagged operation returns for a document
OpResult(fn, document) ==
    <<DescriptorOf(fn).key,
      IF "UserName" \in DOMAIN document THEN OwnerOf(document["UserName"]) ELSE 0>>

ProviderError(call, u) == <<"ProviderError", call, u>>

MissingFieldException == <<"MissingFieldException", "UserName">>

KeyError(k) == <<"KeyError", k>>

\* the registry holds no Base operation: build_out fails (section 4.2)
ConfigurationError == <<"ConfigurationError", "BASE">>

-----------------------------------------------------------------------------
(* _get_base, user.py lines 58-78 *)

BaseFields == {"Arn", "CreateDate", "Path", "UserId", "UserName"}

\* lines 61-65
NeedsBase(item) == \E field \in BaseFields : field \notin DOMAIN item

\* lines 72-78 building a new document of the cast dates and the version marker
\* instead of updating the one at hand
CastDatesIntoNewDocument(item) ==
    [k \in {"CreateDate", "_version"} \cup ({"PasswordLastUsed"} \cap DOMAIN item) |->
        IF k = "_version" THEN <<"version", 2>> ELSE GetIsoString(item[k])]

\* lines 72-78 without the cast of lines 74-75
CastDatesWithoutLastUsed(item) ==
    Merge(Update(item, [CreateDate |-> GetIsoString(item["CreateDate"])]),
          "_version", <<"version", 2>>)

\* lines 72-78: the dates cast to text, the version marker set
CastDates(item) ==
    LET created == Update(item, [CreateDate |-> GetIsoString(item["CreateDate"])])
        used == IF "PasswordLastUsed" \in DOMAIN created
                THEN Update(created,
                        [PasswordLastUsed |-> GetIsoString(created["PasswordLastUsed"])])
                ELSE created
    IN  Merge(used, "_version", <<"version", 2>>)

-----------------------------------------------------------------------------
(* State *)

NoCalls == [o \in OpNames |-> 0]

NoPrev == [set |-> FALSE, result |-> Nothing, calls |-> NoCalls, fetches |-> 0]

NoConn == [assume_role |-> "role", account_number |-> 0]

Init ==
    /\ pc = "idle"
    /\ mode = "none"
    /\ flags = NONE
    /\ start = Nothing
    /\ conn = NoConn
    /\ user = Nothing
    /\ pending = {}
    /\ calls = NoCalls
    /\ fetches = 0
    /\ outcome = "none"
    /\ result = Nothing
    /\ err = Nothing
    /\ thrown = Nothing
    /\ account_users = Nothing
    /\ idx = 0
    /\ users = Nothing
    /\ built = Nothing
    /\ directory = [u \in Users |-> "unknown"]
    /\ prev = NoPrev
    /\ registered = Registry
    /\ inflight = {}

\* get_user with a handler that hands back the document built so far
RaiseFromGetUserSwallowed(e) ==
    /\ pc' = "done"
    /\ outcome' = "returned"
    /\ thrown' = e
    /\ err' = Nothing
    /\ result' = Modify(user)
    /\ UNCHANGED <<idx, users, built>>

\* get_user has no exception handler (lines 105-107): the error raised inside
\* build_out leaves the call as it is and nothing is returned
RaiseFromGetUser(e) ==
    /\ pc' = "failed"
    /\ outcome' = "raised"
    /\ thrown' = e
    /\ err' = e
    /\ result' = Nothing
    /\ UNCHANGED <<idx, users, built>>

\* get_all_users with a handler that skips the failed entity and goes on
RaiseFromGetAllUsersCollected(e) ==
    /\ thrown' = e
    /\ err' = Nothing
    /\ UNCHANGED <<users, built>>
    /\ IF idx < Len(account_users)
       THEN /\ idx' = idx + 1
            /\ pc' = "project"
            /\ UNCHANGED <<outcome, result>>
       ELSE /\ pc' = "done"
            /\ outcome' = "returned"
            /\ result' = users
            /\ UNCHANGED idx

\* get_all_users has no exception handler either (lines 133-157): the loop ends,
\* the list built so far is dropped with the frame
RaiseFromGetAllUsers(e) ==
    /\ pc' = "failed"
    /\ outcome' = "raised"
    /\ thrown' = e
    /\ err' = e
    /\ result' = Nothing
    /\ UNCHANGED <<idx, users, built>>

Raise(e) == IF mode = "get_all_users" THEN RaiseFromGetAllUsers(e) ELSE RaiseFromGetUser(e)

-----------------------------------------------------------------------------
(* The documents a caller passes to get_user *)

\* keys besides the base fields a caller's document may carry
ExtraInputKeys == {"PasswordLastUsed", "InlinePolicies"}

Underscore(K) ==
    IF \E k \in UnderscoredKeys : Camelize(k) = K
    THEN CHOOSE k \in UnderscoredKeys : Camelize(k) = K
    ELSE K

CallerValue(K, u) ==
    IF K \in BaseFields \cup {"PasswordLastUsed"} THEN Native(K, u) ELSE <<"caller", K, u>>

\* the document about user u with the given fields, in either naming convention
InputDoc(fields, u, underscored) ==
    [k \in {IF underscored THEN Underscore(K) ELSE K : K \in fields}
        |-> CallerValue(Camelize(k), u)]

\* the field sets of the documents: complete, complete with an extra key, the
\* minimal ones of the docstring (line 99), and ones with no identifying field
InputFieldSets ==
    { BaseFields,
      BaseFields \cup {"PasswordLastUsed"},
      BaseFields \cup {"InlinePolicies"},
      BaseFields \ {"CreateDate"},
      {"UserName", "Arn"},
      {"UserName", "Arn", "InlinePolicies"},
      {"UserName"},
      {"Arn"},
      {"Path"},
      {} }

InputDocs ==
    {InputDoc(fields, u, underscored) :
        fields \in InputFieldSets, u \in Users, underscored \in BOOLEAN}

-----------------------------------------------------------------------------
(* get_user, user.py lines 81-107 *)

\* get_user refusing the flags it does not know
EnterGetUserStrict(item, requested) ==
    LET normal == Modify(item)
    IN  /\ mode' = "get_user"
        /\ flags' = requested
        /\ user' = normal
        /\ start' = normal
        /\ conn' = ConnFromArgs(normal)
        /\ calls' = NoCalls
        /\ fetches' = 0
        /\ pending' = {}
        /\ result' = Nothing
        /\ IF requested > ALL
           THEN /\ pc' = "failed"
                /\ outcome' = "raised"
                /\ err' = <<"ValueError", "flags">>
                /\ thrown' = <<"ValueError", "flags">>
           ELSE /\ pc' = "base"
                /\ outcome' = "none"
                /\ err' = Nothing
                /\ thrown' = Nothing

\* lines 105-107 up to the entry of build_out
EnterGetUser(item, requested) ==
    LET normal == Modify(item)
    IN  /\ mode' = "get_user"
        /\ flags' = requested
        /\ user' = normal
        /\ start' = normal
        /\ conn' = ConnFromArgs(normal)
        /\ calls' = NoCalls
        /\ fetches' = 0
        /\ pending' = {}
        /\ result' = Nothing
        /\ pc' = "base"
        /\ outcome' = "none"
        /\ err' = Nothing
        /\ thrown' = Nothing

CallGetUser(item, requested) ==
    /\ pc = "idle"
    /\ EnterGetUser(item, requested)
    /\ UNCHANGED <<account_users, idx, users, built, directory, prev, registered, inflight>>

\* the engine's guard of steps 2 and 3 with Base not awaited
RunnableBeforeBase(fn) ==
    /\ pc \in {"base", "ops"}
    /\ fn \in Selected(flags)
    /\ calls[fn] = 0

\* steps 2 and 3 of the engine: Base has returned, the operation is selected and
\* not yet run, and what it depends on has been merged
Runnable(fn) ==
    /\ pc = "ops"
    /\ fn \in pending
    /\ DepsMet(fn, {o \in OpNames : calls[o] > 0})

\* the provider's record of user u is the same at every fetch: what the first
\* fetch shows is what the later ones show
Held(u, everLoggedIn) ==
    /\ directory[u] \in {"unknown", IF everLoggedIn THEN "yes" ELSE "no"}
    /\ directory' = [directory EXCEPT ![u] = IF everLoggedIn THEN "yes" ELSE "no"]

\* _get_base with line 68 passing on whatever name the document holds, none
\* included: the fetch is issued without a name and the provider refuses it
GetBaseNameUnchecked ==
    /\ pc = "base"
    /\ calls' = [calls EXCEPT !["_get_base"] = @ + Cardinality(BaseDescriptors)]
    /\ IF ~NeedsBase(user)
       THEN /\ user' = CastDates(user)
            /\ pending' = Selected(flags)
            /\ pc' = "ops"
            /\ UNCHANGED <<fetches, outcome, result, err, thrown, idx, users, built,
                           directory>>
       ELSE IF ~HasNameInStructure(user)
       THEN /\ fetches' = fetches + 1
            /\ Raise(ProviderError("iam.client.get_user", 0))
            /\ UNCHANGED <<user, pending, directory>>
       ELSE /\ fetches' = fetches + 1
            /\ \/ /\ Raise(ProviderError("iam.client.get_user", GetNameFromStructure(user)))
                  /\ UNCHANGED <<user, pending, directory>>
               \/ \E everLoggedIn \in BOOLEAN :
                    /\ Held(GetNameFromStructure(user), everLoggedIn)
                    /\ user' = CastDates(ProviderUser(GetNameFromStructure(user), everLoggedIn))
                    /\ pending' = Selected(flags)
                    /\ pc' = "ops"
                    /\ UNCHANGED <<outcome, result, err, thrown, idx, users, built>>
    /\ UNCHANGED <<mode, flags, start, conn, account_users, prev, registered, inflight>>

\* _get_base with needs_base of line 61 starting out true: the record is fetched
\* whatever the document holds
GetBaseAlwaysFetches ==
    /\ pc = "base"
    /\ calls' = [calls EXCEPT !["_get_base"] = @ + Cardinality(BaseDescriptors)]
    /\ IF ~HasNameInStructure(user)
       THEN /\ Raise(MissingFieldException)
            /\ UNCHANGED <<user, pending, fetches, directory>>
       ELSE /\ fetches' = fetches + 1
            /\ \/ /\ Raise(ProviderError("iam.client.get_user", GetNameFromStructure(user)))
                  /\ UNCHANGED <<user, pending, directory>>
               \/ \E everLoggedIn \in BOOLEAN :
                    /\ Held(GetNameFromStructure(user), everLoggedIn)
                    /\ user' = CastDates(ProviderUser(GetNameFromStructure(user), everLoggedIn))
                    /\ pending' = Selected(flags)
                    /\ pc' = "ops"
                    /\ UNCHANGED <<outcome, result, err, thrown, idx, users, built>>
    /\ UNCHANGED <<mode, flags, start, conn, account_users, prev, registered, inflight>>

\* the engine's first step: Base runs and its return value replaces the document.
\* _get_base, lines 59-78.
GetBase ==
    /\ pc = "base"
    /\ calls' = [calls EXCEPT !["_get_base"] = @ + Cardinality(BaseDescriptors)]
    /\ IF BaseDescriptors = {}
       THEN /\ Raise(ConfigurationError)
            /\ UNCHANGED <<user, pending, fetches, directory>>
       ELSE IF ~NeedsBase(user)
       THEN /\ user' = CastDates(user)
            /\ pending' = Selected(flags)
            /\ pc' = "ops"
            /\ UNCHANGED <<fetches, outcome, result, err, thrown, idx, users, built,
                           directory>>
       ELSE IF ~HasNameInStructure(user)
       THEN /\ Raise(MissingFieldException)
            /\ UNCHANGED <<user, pending, fetches, directory>>
       ELSE /\ fetches' = fetches + 1
            /\ \/ /\ Raise(ProviderError("iam.client.get_user", GetNameFromStructure(user)))
                  /\ UNCHANGED <<user, pending, directory>>
               \/ \E everLoggedIn \in BOOLEAN :
                    /\ Held(GetNameFromStructure(user), everLoggedIn)
                    /\ user' = CastDates(ProviderUser(GetNameFromStructure(user), everLoggedIn))
                    /\ pending' = Selected(flags)
                    /\ pc' = "ops"
                    /\ UNCHANGED <<outcome, result, err, thrown, idx, users, built>>
    /\ UNCHANGED <<mode, flags, start, conn, account_users, prev, registered, inflight>>

\* steps 3 and 4 of the engine for one selected operation: the operation of lines
\* 28-55 is called with the document and its result is merged under its key
RunOperation(fn) ==
    /\ Runnable(fn)
    /\ \A r \in inflight : r.fn # fn
    /\ calls' = [calls EXCEPT ![fn] = @ + 1]
    /\ \/ /\ user' = Merge(user, DescriptorOf(fn).key, OpResult(fn, user))
          /\ pending' = pending \ {fn}
          /\ UNCHANGED <<pc, outcome, result, err, thrown, idx, users, built>>
       \/ /\ Raise(ProviderError(fn, OpResult(fn, user)[2]))
          /\ UNCHANGED <<user, pending>>
    /\ UNCHANGED <<mode, flags, start, conn, fetches, account_users, directory, prev, registered, inflight>>

\* get_user without the decorator of line 81
ReturnUserUnshaped ==
    /\ pc = "ops"
    /\ mode = "get_user"
    /\ pending = {}
    /\ result' = user
    /\ outcome' = "returned"
    /\ pc' = "done"
    /\ UNCHANGED <<mode, flags, start, conn, user, pending, calls, fetches, err, thrown,
                   account_users, idx, users, built, directory, prev, registered, inflight>>

\* build_out returns the merged document; modify_output (line 81) shapes it
ReturnUser ==
    /\ pc = "ops"
    /\ mode = "get_user"
    /\ pending = {}
    /\ result' = Modify(user)
    /\ outcome' = "returned"
    /\ pc' = "done"
    /\ UNCHANGED <<mode, flags, start, conn, user, pending, calls, fetches, err, thrown,
                   account_users, idx, users, built, directory, prev, registered, inflight>>

\* a caller calls get_user with some document and some flags
StartGetUser ==
    /\ pc = "idle"
    /\ \E item \in InputDocs, requested \in 0..ALL : CallGetUser(item, requested)

\* the bits above the declared flags
UnknownBits == {v \in FlagValues : v # 0 /\ BitAnd(v, ALL) = 0}

\* get_user returned; the caller calls it again with the same document and the
\* same flags plus unknown bits
CallGetUserAgain(unknown) ==
    /\ pc = "done"
    /\ mode = "get_user"
    /\ ~prev.set
    /\ flags <= ALL
    /\ EnterGetUser(start, flags + unknown)
    /\ prev' = [set |-> TRUE, result |-> result, calls |-> calls, fetches |-> fetches]
    /\ UNCHANGED <<account_users, idx, users, built, directory, registered, inflight>>

NextUser ==
    \/ StartGetUser
    \/ GetBase
    \/ \E fn \in OpNames : RunOperation(fn)
    \/ ReturnUser

SpecUser == Init /\ [][NextUser]_vars

NextAgain == NextUser \/ \E unknown \in UnknownBits : CallGetUserAgain(unknown)

SpecAgain == Init /\ [][NextAgain]_vars

-----------------------------------------------------------------------------
(* The authorization-details export *)

\* the fields of an export record that line 137-151 read
ExportFields ==
    <<"Arn", "CreateDate", "GroupList", "UserPolicyList", "AttachedManagedPolicies",
      "Path", "UserId", "UserName">>

\* the fields a record of the export may come without
OptionalExportFields == {"GroupList", "UserPolicyList", "AttachedManagedPolicies"}

ExportValue(f, u) ==
    IF f = "AttachedManagedPolicies"
    THEN <<"list", [PolicyName |-> <<"PolicyName", u>>, PolicyArn |-> <<"PolicyArn", u>>]>>
    ELSE Native(f, u)

\* the record of user u without the fields of omitted
ExportRecord(u, omitted) ==
    [f \in {ExportFields[i] : i \in 1..Len(ExportFields)} \ omitted |-> ExportValue(f, u)]

ExportRecords ==
    {ExportRecord(u, omitted) :
        u \in Users, omitted \in {{}} \cup {{f} : f \in OptionalExportFields}}

\* an export lists every user at most once, in any order
Exports ==
    UNION {
        {e \in [1..n -> ExportRecords] :
            \A i, j \in 1..n : i # j => e[i]["UserName"] # e[j]["UserName"]}
        : n \in 0..MaxUsers }

-----------------------------------------------------------------------------
(* get_all_users, user.py lines 110-157 *)

\* lines 133-134
CallGetAllUsers(requested, export) ==
    /\ pc = "idle"
    /\ mode' = "get_all_users"
    /\ flags' = requested
    /\ \/ /\ account_users' = export
          /\ users' = Nothing
          /\ built' = Nothing
          /\ idx' = 1
          /\ IF export = Nothing
             THEN pc' = "done" /\ outcome' = "returned" /\ result' = Nothing
             ELSE pc' = "project" /\ UNCHANGED <<outcome, result>>
          /\ UNCHANGED <<err, thrown>>
       \/ /\ pc' = "failed"
          /\ outcome' = "raised"
          /\ thrown' = ProviderError("get_account_authorization_details", 0)
          /\ err' = ProviderError("get_account_authorization_details", 0)
          /\ UNCHANGED <<result, account_users, users, built, idx>>
    /\ UNCHANGED <<start, conn, user, pending, calls, fetches, directory, prev, registered, inflight>>

\* the dict literal of lines 137-151; the keys are read in the order written
MissingExportFields(record) ==
    {i \in 1..Len(ExportFields) : ExportFields[i] \notin DOMAIN record}

FirstMissing(record) ==
    ExportFields[CHOOSE i \in MissingExportFields(record) :
                    \A j \in MissingExportFields(record) : i <= j]

\* the projection with the UserId left out
TempUserWithoutUserId(record) ==
    [ Arn |-> record["Arn"],
      CreateDate |-> GetIsoString(record["CreateDate"]),
      GroupList |-> record["GroupList"],
      InlinePolicies |-> record["UserPolicyList"],
      ManagedPolicies |->
          [i \in 1..Len(record["AttachedManagedPolicies"]) |->
              IF i = 1 THEN "list"
              ELSE [name |-> record["AttachedManagedPolicies"][i].PolicyName,
                    arn |-> record["AttachedManagedPolicies"][i].PolicyArn]],
      Path |-> record["Path"],
      UserName |-> record["UserName"] ]

\* the projection with the two policy lists left out
TempUserWithoutPolicies(record) ==
    [ Arn |-> record["Arn"],
      CreateDate |-> GetIsoString(record["CreateDate"]),
      GroupList |-> record["GroupList"],
      Path |-> record["Path"],
      UserId |-> record["UserId"],
      UserName |-> record["UserName"] ]

TempUser(record) ==
    [ Arn |-> record["Arn"],
      CreateDate |-> GetIsoString(record["CreateDate"]),
      GroupList |-> record["GroupList"],
      InlinePolicies |-> record["UserPolicyList"],
      ManagedPolicies |->
          [i \in 1..Len(record["AttachedManagedPolicies"]) |->
              IF i = 1 THEN "list"
              ELSE [name |-> record["AttachedManagedPolicies"][i].PolicyName,
                    arn |-> record["AttachedManagedPolicies"][i].PolicyArn]],
      Path |-> record["Path"],
      UserId |-> record["UserId"],
      UserName |-> record["UserName"] ]

\* lines 136-154: the record is projected and normalised, then build_out is entered
ProjectUser ==
    /\ pc = "project"
    /\ IF MissingExportFields(account_users[idx]) # {}
       THEN /\ Raise(KeyError(FirstMissing(account_users[idx])))
            /\ UNCHANGED <<start, conn, user, calls, fetches>>
       ELSE LET normal == Modify(TempUser(account_users[idx]))
            IN  /\ user' = normal
                /\ start' = normal
                /\ conn' = ConnFromArgs(normal)
                /\ calls' = NoCalls
                /\ fetches' = 0
                /\ pc' = "base"
                /\ UNCHANGED <<outcome, result, err, thrown, idx, users, built>>
    /\ UNCHANGED <<mode, flags, pending, account_users, directory, prev, registered, inflight>>

\* the loop putting each document in front of the list
AppendUserInFront ==
    /\ pc = "ops"
    /\ mode = "get_all_users"
    /\ pending = {}
    /\ users' = <<user>> \o users
    /\ built' = <<[start |-> start, calls |-> calls, fetches |-> fetches]>> \o built
    /\ IF idx < Len(account_users)
       THEN /\ idx' = idx + 1
            /\ pc' = "project"
            /\ UNCHANGED <<outcome, result>>
       ELSE /\ pc' = "done"
            /\ outcome' = "returned"
            /\ result' = <<user>> \o users
            /\ UNCHANGED idx
    /\ UNCHANGED <<mode, flags, start, conn, user, pending, calls, fetches, err, thrown,
                   account_users, directory, prev, registered, inflight>>

\* line 155 and the end of the loop, line 157
AppendUser ==
    /\ pc = "ops"
    /\ mode = "get_all_users"
    /\ pending = {}
    /\ users' = Append(users, user)
    /\ built' = Append(built, [start |-> start, calls |-> calls, fetches |-> fetches])
    /\ IF idx < Len(account_users)
       THEN /\ idx' = idx + 1
            /\ pc' = "project"
            /\ UNCHANGED <<outcome, result>>
       ELSE /\ pc' = "done"
            /\ outcome' = "returned"
            /\ result' = Append(users, user)
            /\ UNCHANGED idx
    /\ UNCHANGED <<mode, flags, start, conn, user, pending, calls, fetches, err, thrown,
                   account_users, directory, prev, registered, inflight>>

\* a caller calls get_all_users with some flags; the provider holds some export
StartGetAllUsers ==
    /\ pc = "idle"
    /\ \E requested \in 0..ALL, export \in Exports : CallGetAllUsers(requested, export)

NextBulk ==
    \/ StartGetAllUsers
    \/ ProjectUser
    \/ GetBase
    \/ \E fn \in OpNames : RunOperation(fn)
    \/ AppendUser

SpecBulk == Init /\ [][NextBulk]_vars

Next ==
    \/ StartGetUser
    \/ StartGetAllUsers
    \/ ProjectUser
    \/ GetBase
    \/ \E fn \in OpNames : RunOperation(fn)
    \/ ReturnUser
    \/ AppendUser

Spec == Init /\ [][Next]_vars

-----------------------------------------------------------------------------
(* Independent operations dispatched concurrently, specification section 5 *)

InFlight == {r.fn : r \in inflight}

\* step 3 alone: the operation of lines 28-55 is called with the document as it is
\* now; its result is held until the engine merges it
InvokeOperation(fn) ==
    /\ Runnable(fn)
    /\ fn \notin InFlight
    /\ calls' = [calls EXCEPT ![fn] = @ + 1]
    /\ \/ /\ inflight' = inflight \cup {[fn |-> fn, value |-> OpResult(fn, user)]}
          /\ UNCHANGED <<pc, outcome, result, err, thrown, idx, users, built>>
       \/ /\ Raise(ProviderError(fn, OpResult(fn, user)[2]))
          /\ UNCHANGED inflight
    /\ UNCHANGED <<mode, flags, start, conn, user, pending, fetches, account_users,
                   directory, prev, registered>>

\* step 4 alone: a held result is stored under the key of its operation
MergeResult(fn) ==
    /\ pc = "ops"
    /\ \E r \in inflight :
         /\ r.fn = fn
         /\ user' = Merge(user, DescriptorOf(fn).key, r.value)
         /\ inflight' = inflight \ {r}
    /\ pending' = pending \ {fn}
    /\ UNCHANGED <<pc, mode, flags, start, conn, calls, fetches, outcome, result, err,
                   thrown, account_users, idx, users, built, directory, prev, registered>>

\* the caller's documents of the concurrent runs: one that Base keeps (with a key
\* of the caller's own) and one that Base replaces by the provider's record
DispatchFieldSets == {BaseFields \cup {"InlinePolicies"}, {"UserName"}}

StartGetUserDispatch ==
    /\ pc = "idle"
    /\ \E fields \in DispatchFieldSets, u \in Users, requested \in 0..ALL :
         CallGetUser(InputDoc(fields, u, FALSE), requested)

\* get_user with the selected operations run one after the other in any order, or
\* overlapping: called in any order, merged in any order
NextConcurrent ==
    \/ StartGetUserDispatch
    \/ GetBase
    \/ \E fn \in OpNames : RunOperation(fn)
    \/ \E fn \in OpNames : InvokeOperation(fn)
    \/ \E fn \in OpNames : MergeResult(fn)
    \/ ReturnUser

SpecConcurrent == Init /\ [][NextConcurrent]_vars

-----------------------------------------------------------------------------
(* Loading the module: the decorators of lines 28-58 run in source order *)

\* how many registrations other modules add to the registry after this one
MaxLaterRegistrations == 2

\* the error a refused registration raises
RegistrationError(d) == <<"ConfigurationError", d.fn, d.key>>

\* a keyed descriptor asks for a key some registered descriptor already has
KeyTaken(reg, d) ==
    /\ d.key # None
    /\ \E i \in 1..Len(reg) : reg[i].key = d.key

\* registry.register(...)(fn): the descriptor is appended, or the registration is
\* refused and the registry stays as it was
Register(d) ==
    IF KeyTaken(registered, d)
    THEN /\ registered' = registered
         /\ err' = RegistrationError(d)
         /\ thrown' = RegistrationError(d)
    ELSE /\ registered' = Append(registered, d)
         /\ err' = Nothing
         /\ thrown' = Nothing

\* the state in which the import of the module starts: FlagRegistry() of line 23
\* holds nothing yet
InitLoad ==
    /\ pc = "loading"
    /\ mode = "none"
    /\ flags = NONE
    /\ start = Nothing
    /\ conn = NoConn
    /\ user = Nothing
    /\ pending = {}
    /\ calls = NoCalls
    /\ fetches = 0
    /\ outcome = "none"
    /\ result = Nothing
    /\ err = Nothing
    /\ thrown = Nothing
    /\ account_users = Nothing
    /\ idx = 0
    /\ users = Nothing
    /\ built = Nothing
    /\ directory = [u \in Users |-> "unknown"]
    /\ prev = NoPrev
    /\ registered = <<>>
    /\ inflight = {}

\* the next decorator of lines 28-58 runs; a refused registration ends the import
RegisterDecorator ==
    /\ pc = "loading"
    /\ Len(registered) < Len(Registry)
    /\ Register(Registry[Len(registered) + 1])
    /\ pc' = IF KeyTaken(registered, Registry[Len(registered) + 1]) THEN "load_failed"
             ELSE IF Len(registered) + 1 = Len(Registry) THEN "loaded"
             ELSE "loading"
    /\ UNCHANGED <<mode, flags, start, conn, user, pending, calls, fetches, outcome, result,
                   account_users, idx, users, built, directory, prev, inflight>>

\* what code outside this module may try to register on the same registry: its
\* own function, a flag declared or not, a key free or taken
LaterDescriptors ==
    [fn : {"get_groups", "get_ssh_keys"},
     flag : {FlagBit("ACCESS_KEYS"), Pow2(Len(FlagNames))},
     depends_on : {FlagBit("BASE")},
     key : {"access_keys", "mfa_devices", "groups", "ssh_public_keys", "tags"}]

\* a registration made after the module is loaded
RegisterLater(d) ==
    /\ pc = "loaded"
    /\ Len(registered) < Len(Registry) + MaxLaterRegistrations
    /\ Register(d)
    /\ UNCHANGED <<pc, mode, flags, start, conn, user, pending, calls, fetches, outcome,
                   result, account_users, idx, users, built, directory, prev, inflight>>

NextLoad ==
    \/ RegisterDecorator
    \/ \E d \in LaterDescriptors : RegisterLater(d)

SpecLoad == InitLoad /\ [][NextLoad]_vars

-----------------------------------------------------------------------------
(* Claims *)

FlaggedOps == OpNames \ {"_get_base"}

Requested(fn) == BitAnd(flags, DescriptorOf(fn).flag) # 0

\* C1: in every call of get_user, whatever the flags (NONE included), the Base
\* operation _get_base is executed exactly once: never twice while the call
\* runs, and once when the call has ended, by a return or by an error.
C1_BaseExactlyOnce ==
    mode = "get_user" =>
        /\ calls["_get_base"] <= 1
        /\ pc \in {"ops", "done", "failed"} => calls["_get_base"] = 1

\* get_user returned for the empty selection NONE and Base has run once
C1_Witness ==
    /\ mode = "get_user"
    /\ pc = "done"
    /\ flags = NONE
    /\ calls["_get_base"] = 1

\* C2: in every build-out a flagged operation is invoked only after _get_base has
\* run and its return value (the document carrying the version marker) has become
\* the working document, also when the flags hold no BASE bit.
C2_BaseFirst ==
    [][\A fn \in FlaggedOps :
          calls'[fn] > calls[fn] =>
              /\ calls["_get_base"] = 1
              /\ pc = "ops"
              /\ "_version" \in DOMAIN user
              /\ ~NeedsBase(user)]_vars

\* ACCESS_KEYS alone was requested, without the BASE bit, and get_access_keys ran
C2_Witness ==
    /\ flags = FlagBit("ACCESS_KEYS")
    /\ calls["get_access_keys"] = 1
    /\ calls["_get_base"] = 1

\* C3 as stated: the document get_user returns holds the key of an optional
\* operation if and only if the flag of that operation was requested.
C3_KeysIffRequested ==
    (mode = "get_user" /\ outcome = "returned") =>
        \A fn \in FlaggedOps :
            Camelize(DescriptorOf(fn).key) \in DOMAIN result <=> Requested(fn)

\* C3, amended: the document get_user returns holds the key of an optional
\* operation if and only if the flag of that operation was requested or the
\* caller's document already carried that key and Base kept the caller's
\* document (it held the five base fields, nothing was fetched).
C3_KeysIffRequestedOrCarried ==
    (mode = "get_user" /\ outcome = "returned") =>
        \A fn \in FlaggedOps :
            Camelize(DescriptorOf(fn).key) \in DOMAIN result
                <=> \/ Requested(fn)
                    \/ /\ Camelize(DescriptorOf(fn).key) \in DOMAIN start
                       /\ ~NeedsBase(start)

\* ACCESS_KEYS | MFA_DEVICES was requested for the minimal document and exactly
\* those two optional keys came back
C3_Witness ==
    /\ mode = "get_user"
    /\ outcome = "returned"
    /\ flags = FlagBit("ACCESS_KEYS") + FlagBit("MFA_DEVICES")
    /\ DOMAIN start = {"UserName", "Arn"}
    /\ DOMAIN result =
          BaseFields \cup {"_version", "AccessKeys", "MFADevices"}

\* C4: when the provider call of Base or of a requested operation raises during
\* get_user, the call ends with that very error and returns nothing, the failed
\* operation has been invoked once only, and after the failure no operation is
\* invoked and nothing is fetched again.
C4_ErrorPropagates ==
    /\ [](mode = "get_user" /\ thrown # Nothing =>
            /\ pc = "failed"
            /\ outcome = "raised"
            /\ err = thrown
            /\ result = Nothing
            /\ fetches <= 1
            /\ \A fn \in OpNames : calls[fn] <= 1)
    /\ [][mode = "get_user" /\ thrown # Nothing =>
            calls' = calls /\ fetches' = fetches]_vars

\* get_mfa_devices failed after get_access_keys had been merged
C4_Witness ==
    /\ mode = "get_user"
    /\ pc = "failed"
    /\ thrown = ProviderError("get_mfa_devices", 1)
    /\ calls["get_access_keys"] = 1
    /\ "access_keys" \in DOMAIN user

\* C5 as stated: in get_all_users the Base operation is never invoked.
C5_BaseNeverInvokedInBulk ==
    mode = "get_all_users" => calls["_get_base"] = 0

\* C5, amended: in get_all_users _get_base runs once for every entity, as in
\* every build-out, but never issues the provider fetch iam.client.get_user,
\* for any flag selection; besides Base only the flag-selected operations run,
\* once each per entity.
C5_BaseNeverFetchesInBulk ==
    mode = "get_all_users" =>
        /\ fetches = 0
        /\ calls["_get_base"] <= 1
        /\ pc = "ops" => calls["_get_base"] = 1
        /\ \A fn \in FlaggedOps : calls[fn] > 0 => (Requested(fn) /\ calls[fn] = 1)
        /\ \A i \in 1..Len(built) :
              /\ built[i].fetches = 0
              /\ built[i].calls["_get_base"] = 1
              /\ \A fn \in FlaggedOps :
                    built[i].calls[fn] = IF Requested(fn) THEN 1 ELSE 0

\* get_all_users returned two documents for its default flags
C5_Witness ==
    /\ mode = "get_all_users"
    /\ pc = "done"
    /\ flags = DefaultBulkFlags
    /\ Len(built) = 2
    /\ built[2].calls["_get_base"] = 1
    /\ built[2].calls["get_login_profile"] = 1

\* the fields the export provides and the loop copies
BulkFields == {"Arn", "Path", "UserId", "UserName"}

\* C6: when nothing fails, get_all_users returns one document per record of the
\* export, in the order of the export; the i-th document holds the i-th record's
\* Arn, Path, UserId and UserName, its CreateDate as text, and for every requested
\* flag the key of that flag's operation with the result obtained for that user.
C6_OneDocumentPerEntity ==
    (mode = "get_all_users" /\ outcome = "returned") =>
        /\ Len(result) = Len(account_users)
        /\ \A i \in 1..Len(result) :
              /\ \A f \in BulkFields : result[i][f] = account_users[i][f]
              /\ result[i]["CreateDate"] = GetIsoString(account_users[i]["CreateDate"])
              /\ \A fn \in FlaggedOps :
                    Requested(fn) =>
                        /\ DescriptorOf(fn).key \in DOMAIN result[i]
                        /\ result[i][DescriptorOf(fn).key][1] = DescriptorOf(fn).key
                        /\ OwnerOf(result[i][DescriptorOf(fn).key])
                              = OwnerOf(account_users[i]["UserName"])

\* the export listed user 2 before user 1 and LOGIN_PROFILE was requested
C6_Witness ==
    /\ mode = "get_all_users"
    /\ outcome = "returned"
    /\ flags = FlagBit("LOGIN_PROFILE")
    /\ Len(result) = 2
    /\ OwnerOf(result[1]["UserName"]) = 2
    /\ result[1]["login_profile"] = <<"login_profile", 2>>
    /\ result[2]["login_profile"] = <<"login_profile", 1>>

\* C7: when something fails for the k-th entity, get_all_users ends with that
\* error and returns no list, not even the documents already built, and from
\* then on no operation is invoked, nothing is fetched and the loop does not
\* move on.
C7_BulkFailFast ==
    /\ [](mode = "get_all_users" /\ thrown # Nothing =>
            /\ pc = "failed"
            /\ outcome = "raised"
            /\ err = thrown
            /\ result = Nothing)
    /\ [][mode = "get_all_users" /\ thrown # Nothing =>
            calls' = calls /\ fetches' = fetches /\ idx' = idx /\ users' = users]_vars

\* an operation failed for the second entity after the first document was built
C7_Witness ==
    /\ mode = "get_all_users"
    /\ pc = "failed"
    /\ idx = 2
    /\ Len(users) = 1
    /\ thrown = ProviderError("get_login_profile", OwnerOf(account_users[2]["UserName"]))

\* the other case of C7: an operation failed for the first entity while a second
\* one was still to come
C7_WitnessLater ==
    /\ mode = "get_all_users"
    /\ pc = "failed"
    /\ idx = 1
    /\ Len(account_users) = 2
    /\ thrown[1] = "ProviderError"
    /\ thrown[2] \in FlaggedOps

\* C8: get_all_users fails only when the provider fails; a record of the export
\* that comes without GroupList, UserPolicyList or AttachedManagedPolicies does
\* not make it fail.
C8_ToleratesOmittedFields ==
    (mode = "get_all_users" /\ pc = "failed") => thrown[1] = "ProviderError"

OptionalPresent(document, fn) ==
    \/ DescriptorOf(fn).key \in DOMAIN document
    \/ Camelize(DescriptorOf(fn).key) \in DOMAIN document

\* C9 as stated: in every document get_user or get_all_users produces, an
\* optional key is present only if its flag was requested.
C9_OptionalOnlyIfRequested ==
    /\ (mode = "get_user" /\ outcome = "returned") =>
          \A fn \in FlaggedOps : OptionalPresent(result, fn) => Requested(fn)
    /\ mode = "get_all_users" =>
          \A i \in 1..Len(users) :
              \A fn \in FlaggedOps : OptionalPresent(users[i], fn) => Requested(fn)

\* the optional keys the projection of lines 137-151 always writes
ProjectedOptionalKeys == {"InlinePolicies", "ManagedPolicies"}

\* C9, amended: an optional key is present only if its flag was requested or the
\* document handed to the build-out already carried it. get_user keeps such a key
\* of the caller's document when that document holds the five base fields. Every
\* document of get_all_users carries InlinePolicies and ManagedPolicies projected
\* from the export, whatever the flags, and no other camelized optional key; the
\* keys its operations write (access_keys, ..., never reshaped there) are present
\* only if their flag was requested.
C9_OptionalOnlyIfRequestedOrCarried ==
    /\ (mode = "get_user" /\ outcome = "returned") =>
          \A fn \in FlaggedOps :
              OptionalPresent(result, fn) =>
                  \/ Requested(fn)
                  \/ /\ Camelize(DescriptorOf(fn).key) \in DOMAIN start
                     /\ ~NeedsBase(start)
    /\ mode = "get_all_users" =>
          \A i \in 1..Len(users) :
              /\ ProjectedOptionalKeys \subseteq DOMAIN users[i]
              /\ \A fn \in FlaggedOps :
                    /\ DescriptorOf(fn).key \in DOMAIN users[i] => Requested(fn)
                    /\ Camelize(DescriptorOf(fn).key) \in DOMAIN users[i] =>
                          Camelize(DescriptorOf(fn).key) \in ProjectedOptionalKeys

\* get_all_users built a document for its default flags, which exclude
\* INLINE_POLICIES and MANAGED_POLICIES
C9_Witness ==
    /\ mode = "get_all_users"
    /\ flags = DefaultBulkFlags
    /\ Len(users) >= 1
    /\ "InlinePolicies" \in DOMAIN users[1]
    /\ "access_keys" \in DOMAIN users[1]
    /\ "inline_policies" \notin DOMAIN users[1]

\* C10: flag bits of no registered operation are ignored. When get_user is called
\* again with the same document and the same flags plus unknown bits, the only
\* error it can end with is one the provider raised, it invokes no operation the
\* first call did not invoke, and when it returns it has invoked the same
\* operations, fetched as often and returns the same document.
C10_UnknownBitsIgnored ==
    prev.set =>
        /\ pc = "failed" => thrown[1] = "ProviderError"
        /\ \A fn \in OpNames : calls[fn] <= prev.calls[fn]
        /\ fetches <= prev.fetches
        /\ outcome = "returned" =>
              /\ result = prev.result
              /\ calls = prev.calls
              /\ fetches = prev.fetches

\* the second call, with an unknown bit on top of ACCESS_KEYS | MFA_DEVICES, returned
C10_Witness ==
    /\ prev.set
    /\ outcome = "returned"
    /\ flags > ALL
    /\ BitAnd(flags, ALL) = FlagBit("ACCESS_KEYS") + FlagBit("MFA_DEVICES")
    /\ "AccessKeys" \in DOMAIN result

\* an accepted registration appends one descriptor whose key was free
AcceptedStep ==
    /\ Len(registered') = Len(registered) + 1
    /\ SubSeq(registered', 1, Len(registered)) = registered
    /\ ~KeyTaken(registered, registered'[Len(registered')])
    /\ err' = Nothing

\* a refused registration names a taken key and leaves the registry as it was
RefusedStep ==
    /\ registered' = registered
    /\ err' # Nothing
    /\ err'[1] = "ConfigurationError"
    /\ \E i \in 1..Len(registered) : registered[i].key = err'[3]

\* C11: merge keys never collide: the import of the module registers its six
\* non-Base operations without a refusal, under pairwise distinct keys and pairwise
\* distinct flags; at every moment the keyed descriptors of the registry have
\* pairwise distinct keys; and every registration either appends a descriptor whose
\* key was free or, asking for a key already taken, fails and changes nothing
C11_KeysNeverCollide ==
    /\ [](pc # "load_failed")
    /\ [](\A i, j \in 1..Len(registered) :
            (i # j /\ registered[i].key # None) => registered[i].key # registered[j].key)
    /\ [](pc = "loaded" =>
            /\ SubSeq(registered, 1, Len(Registry)) = Registry
            /\ Cardinality({i \in 1..Len(Registry) : registered[i].key # None}) = 6
            /\ \A i, j \in 1..Len(Registry) :
                    (i # j /\ registered[i].key # None /\ registered[j].key # None)
                        => registered[i].flag # registered[j].flag)
    /\ [][AcceptedStep \/ RefusedStep]_vars

\* the module is loaded, another module registered one operation, and a further
\* registration asking for the key of line 28 was refused
C11_Witness ==
    /\ pc = "loaded"
    /\ Len(registered) = Len(Registry) + 1
    /\ err = RegistrationError([fn |-> "get_ssh_keys", key |-> "access_keys"])

\* the operations of the running build-out whose result is in the document
Executed == Selected(flags) \ pending

\* the document Base hands to the engine for the caller's document: the caller's
\* own when it holds the five base fields, the provider's record otherwise
BaseDocument ==
    IF ~NeedsBase(start) THEN CastDates(start)
    ELSE CastDates(ProviderUser(GetNameFromStructure(start),
                                directory[GetNameFromStructure(start)] = "yes"))

\* the document that holds the results of the operations in done and nothing else
\* beside the document of Base
DocumentAfter(done) ==
    [k \in (DOMAIN BaseDocument) \cup {DescriptorOf(fn).key : fn \in done} |->
        IF \E fn \in done : DescriptorOf(fn).key = k
        THEN OpResult(CHOOSE fn \in done : DescriptorOf(fn).key = k, BaseDocument)
        ELSE BaseDocument[k]]

\* C12: the flagged operations of one build-out are independent: whatever the flag
\* selection and whatever the order in which the selected operations are called and
\* merged, one after the other or overlapping, the document depends only on which
\* operations have been merged: it is the document of Base plus, for each merged
\* operation, its own key holding its own result, one key per operation; so the
\* returned document is the same for every order
C12_OrderIndependent ==
    (mode = "get_user" /\ pc \in {"ops", "done"}) =>
        /\ user = DocumentAfter(Executed)
        /\ Cardinality(DOMAIN user \ DOMAIN BaseDocument) = Cardinality(Executed)
        /\ \A r \in inflight : r.value = OpResult(r.fn, BaseDocument)
        /\ pc = "done" =>
               /\ Executed = Selected(flags)
               /\ result = Modify(DocumentAfter(Selected(flags)))

\* three operations overlap: the result of get_mfa_devices is merged while those
\* of get_access_keys and get_login_profile are still in flight
C12_Witness ==
    /\ pc = "ops"
    /\ flags = FlagBit("ACCESS_KEYS") + FlagBit("MFA_DEVICES") + FlagBit("LOGIN_PROFILE")
    /\ InFlight = {"get_access_keys", "get_login_profile"}
    /\ "mfa_devices" \in DOMAIN user
    /\ "access_keys" \notin DOMAIN user

\* get_user has left Base behind, one way or the other
PastBase == mode = "get_user" /\ pc \in {"ops", "done", "failed"}

\* the call failed with the identifying-field error before any provider call
FailedUnidentified ==
    /\ pc = "failed"
    /\ outcome = "raised"
    /\ err = MissingFieldException
    /\ fetches = 0
    /\ \A fn \in FlaggedOps : calls[fn] = 0
    /\ result = Nothing

\* C13 as stated: a document lacking a base field and lacking UserName makes
\* get_user fail with the identifying-field error, no provider call made and no
\* document returned
C13_FailsWithoutUserName ==
    (PastBase /\ NeedsBase(start) /\ "UserName" \notin DOMAIN start) => FailedUnidentified

\* C13: a document lacking a base field from which no name can be taken, neither
\* UserName nor the Arn it could be parsed from, makes get_user fail with the
\* identifying-field error, no provider call made and no document returned
C13_FailsWithoutName ==
    (PastBase /\ NeedsBase(start) /\ ~HasNameInStructure(start)) => FailedUnidentified

\* get_user({Path}) has failed with the identifying-field error
C13_Witness ==
    /\ mode = "get_user"
    /\ DOMAIN start = {"Path"}
    /\ pc = "failed"
    /\ err = MissingFieldException

\* get_user has returned a document
Returned == mode = "get_user" /\ pc = "done" /\ outcome = "returned"

\* the document Base works on holds PasswordLastUsed: the caller's document when it
\* has the five base fields, the provider's record of the user otherwise
LastUsedInWorkingDocument ==
    IF ~NeedsBase(start) THEN "PasswordLastUsed" \in DOMAIN start
    ELSE directory[GetNameFromStructure(start)] = "yes"

IsText(v) == v[1] = "iso8601"

\* C14: every document get_user returns, whatever the flags, NONE included, holds
\* the version marker with value 2 and a CreateDate converted to text; it holds
\* PasswordLastUsed exactly when the working document held it, and then converted
\* to text
C14_VersionAndDates ==
    Returned =>
        /\ "_version" \in DOMAIN result
        /\ result["_version"] = <<"version", 2>>
        /\ "CreateDate" \in DOMAIN result
        /\ IsText(result["CreateDate"])
        /\ "PasswordLastUsed" \in DOMAIN result <=> LastUsedInWorkingDocument
        /\ "PasswordLastUsed" \in DOMAIN result => IsText(result["PasswordLastUsed"])

\* get_user(flags=NONE) returned the caller's complete document, whose two dates
\* were datetimes
C14_Witness ==
    /\ Returned
    /\ flags = NONE
    /\ fetches = 0
    /\ start["CreateDate"][1] = "datetime"
    /\ "PasswordLastUsed" \in DOMAIN start
    /\ start["PasswordLastUsed"][1] = "datetime"
    /\ IsText(result["PasswordLastUsed"])

\* get_user returned the record fetched for a user who has logged in
C14_WitnessFetched ==
    /\ Returned
    /\ fetches = 1
    /\ "PasswordLastUsed" \in DOMAIN result

\* Base has run on the document the build-out started with
BaseHasRun == calls["_get_base"] >= 1

\* every document get_all_users has projected holds the five base fields and was
\* built without a fetch
BulkNeverFetches ==
    /\ (mode = "get_all_users" /\ pc \in {"base", "ops"}) => ~NeedsBase(start)
    /\ mode = "get_all_users" => fetches = 0
    /\ built # Nothing =>
          \A i \in 1..Len(built) : ~NeedsBase(built[i].start) /\ built[i].fetches = 0

\* C15 as stated: Base issues the fetch iam.client.get_user if and only if one of
\* the five base fields is missing from the document, and at most once; never for
\* a document get_all_users projects
C15_FetchIffFieldMissing ==
    /\ fetches <= 1
    /\ ~BaseHasRun => fetches = 0
    /\ BaseHasRun => (fetches = 1 <=> NeedsBase(start))
    /\ BulkNeverFetches

\* C15: Base issues the fetch iam.client.get_user if and only if one of the five
\* base fields is missing from the document and a name for the fetch can be taken
\* from it, and at most once; with a field missing and no name Base raises before
\* the fetch; with all five present it makes no provider call, which is the case
\* of every document get_all_users projects
C15_FetchIffFieldMissingAndNamed ==
    /\ fetches <= 1
    /\ ~BaseHasRun => fetches = 0
    /\ BaseHasRun => (fetches = 1 <=> (NeedsBase(start) /\ HasNameInStructure(start)))
    /\ BulkNeverFetches

\* Base fetched the record for get_user({UserName}) and the engine goes on
C15_Witness ==
    /\ mode = "get_user"
    /\ DOMAIN start = {"UserName"}
    /\ BaseHasRun
    /\ fetches = 1
    /\ pc = "ops"

\* get_all_users has built one document and Base has run on the second
C15_WitnessBulk ==
    /\ mode = "get_all_users"
    /\ built # Nothing
    /\ Len(built) = 1
    /\ idx = 2
    /\ BaseHasRun
    /\ pc = "ops"

\* C16 as stated: the document only grows: every key of the caller's document,
\* once normalised, is a key of the document get_user returns, also when Base
\* fetches the record
C16_DocumentOnlyGrows ==
    Returned => DOMAIN start \subseteq DOMAIN result

\* C16: every key of the caller's normalised document is a key of the document
\* get_user returns when that document holds the five base fields, Base then
\* updating it in place; when Base fetches, the provider's record replaces the
\* document and of the caller's keys only the base fields are sure to be there
C16_DocumentOnlyGrowsUnlessFetched ==
    Returned =>
        /\ ~NeedsBase(start) => DOMAIN start \subseteq DOMAIN result
        /\ (DOMAIN start \cap BaseFields) \subseteq DOMAIN result

\* get_user returned the caller's complete document, its own key InlinePolicies
\* kept, with the keys of the two requested operations added
C16_Witness ==
    /\ Returned
    /\ flags = FlagBit("ACCESS_KEYS") + FlagBit("MFA_DEVICES")
    /\ fetches = 0
    /\ "InlinePolicies" \in DOMAIN start
    /\ {"InlinePolicies", "AccessKeys", "MFADevices"} \subseteq DOMAIN result

====
